---- MODULE Spec2Model ----
(***************************************************************************)
(* Model of the screen-capture kernel of lens-app.                         *)
(*                                                                         *)
(* Spec       : one call of the native-graphics (GDI) capture_screen of    *)
(*              src-tauri/src/capture/windows.rs, statement by statement,  *)
(*              against an abstract GDI whose calls may fail.              *)
(* KernelSpec : the pure computations of that function (row size, channel  *)
(*              swap) applied to arbitrary inputs.                         *)
(* MacSpec    : concurrent calls of the external-tool capture_screen of    *)
(*              src-tauri/src/capture/macos.rs over one clock and one      *)
(*              temp directory.                                            *)
(* BuildSpec  : a build for any target OS: the backend capture/mod.rs      *)
(*              links in, then calls of that backend.                      *)
(* AppSpec    : the window and shortcut commands (toggle_window,           *)
(*              set_shortcuts, update_shortcut) over the global-shortcut   *)
(*              registry and the persisted configuration.                  *)
(***************************************************************************)
EXTENDS Integers, Sequences, FiniteSets, TLC

VARIABLES
    pc,               \* position inside capture_screen
    width, height,    \* GetSystemMetrics results
    screen_dc,        \* local handle: "unset", "null" or the object it names
    mem_dc,
    bitmap,
    old_bitmap,
    blt_result,       \* "unset", "ok" or "err"
    gdi,              \* the operating system's side of the GDI objects
    row_size,         \* -1 until computed
    dib,              \* the bits the OS holds for the off-screen bitmap
    scanlines,        \* GetDIBits return value, -1 until called
    pixels,           \* Vec<u8> pixels
    unpadded_pixels,  \* Vec<u8> unpadded_pixels
    png_data,         \* Vec<u8> png_data
    steps,            \* how often each step of the call has run
    result,           \* Pending, or the returned Result<String, String>
    swaps,            \* KernelSpec: channel swaps applied so far
    target_os,        \* the target OS of the build
    clock,            \* wall clock, milliseconds since the epoch
    fs,               \* the temp directory: path -> file
    call,             \* external-tool backend: the locals of each call
    visible,          \* is the main window visible
    registered,       \* the global shortcuts registered with the OS
    config,           \* the persisted config.json
    last              \* the last command run and what it did

winVars == <<pc, width, height, screen_dc, mem_dc, bitmap, old_bitmap, blt_result,
             gdi, row_size, dib, scanlines, pixels, unpadded_pixels, png_data,
             steps, result, swaps>>

macVars == <<clock, fs, call>>

appVars == <<visible, registered, config, last>>

vars == <<winVars, target_os, macVars, appVars>>

\* ------------------------------------------------------------------ bounds
MaxWidth  == 7
MaxHeight == 3
MaxLen    == 5
MaxSwaps  == 2
NumCalls  == 2
MaxClock  == 1

\* Values GetSystemMetrics can report (0 and negative included).
Dimensions(max) == -1 .. max

\* Byte values used for arbitrary buffers of KernelSpec.
SampleBytes == {0, 1, 255}

\* --------------------------------------------------------- pure functions
\* Faulty variants of the row size: rounding down instead of up, and adding a whole
\* alignment unit instead of alignment - 1.
RowSize_RoundDown(w) == ((w * 3) \div 4) * 4
RowSize_Plus4(w) == ((w * 3 + 4) \div 4) * 4

\* let row_size = ((width * 3 + 3) / 4) * 4;
RowSize(w) == ((w * 3 + 3) \div 4) * 4

\* let image_size = (row_size * height) as usize;
ImageSize(rs, h) == rs * h

\* vec![0; image_size]
Zeroed(n) == [i \in 1 .. n |-> 0]

\* Faulty variants of the channel swap: chunk.swap(0, 1), and chunk.rotate_left(1).
ChannelSwap_FirstTwo(buf) ==
    [i \in 1 .. Len(buf) |->
        LET k == (i - 1) \div 3
            j == (i - 1) % 3
        IN  IF 3 * k + 3 > Len(buf) THEN buf[i]
            ELSE IF j = 0 THEN buf[i + 1]
            ELSE IF j = 1 THEN buf[i - 1]
            ELSE buf[i]]

ChannelSwap_Rotate(buf) ==
    [i \in 1 .. Len(buf) |->
        LET k == (i - 1) \div 3
            j == (i - 1) % 3
        IN  IF 3 * k + 3 > Len(buf) THEN buf[i]
            ELSE IF j = 2 THEN buf[i - 2]
            ELSE buf[i + 1]]

\* for chunk in pixels.chunks_exact_mut(3) { chunk.swap(0, 2); }
\* chunks_exact_mut cuts the whole buffer into consecutive 3-byte chunks
\* starting at offset 0 and skips a trailing remainder shorter than 3.
ChannelSwap(buf) ==
    [i \in 1 .. Len(buf) |->
        LET k == (i - 1) \div 3
            j == (i - 1) % 3
        IN  IF 3 * k + 3 > Len(buf) THEN buf[i]
            ELSE IF j = 0 THEN buf[i + 2]
            ELSE IF j = 2 THEN buf[i - 2]
            ELSE buf[i]]

\* for row in 0..height { start = row * row_size; end = start + width * 3;
\*                        unpadded_pixels.extend_from_slice(&pixels[start..end]) }
RECURSIVE RemovePaddingFrom(_, _, _, _, _)
RemovePaddingFrom(row, buf, w, h, rs) ==
    IF row >= h THEN <<>>
    ELSE LET start == row * rs
             end   == start + w * 3
         IN  SubSeq(buf, start + 1, end) \o RemovePaddingFrom(row + 1, buf, w, h, rs)

\* Faulty variant of the de-padding: each row is copied with its padding.
RemovePadding_WholeRows(buf, w, h, rs) == SubSeq(buf, 1, rs * h)

RemovePadding(buf, w, h, rs) == RemovePaddingFrom(0, buf, w, h, rs)

\* png::Encoder::new(&mut png_data, width, height) with ColorType::Rgb (2) and
\* BitDepth::Eight (8); write_header emits the signature and the IHDR fields.
PngHeader(w, h) == <<137, 80, 78, 71, w % 256, h % 256, 8, 2>>

\* write_image_data: one scanline per row, each preceded by its filter-type
\* byte (0, no filter); compression is left out.
RECURSIVE PngScanlines(_, _, _)
PngScanlines(data, w, h) ==
    IF h <= 0 THEN <<>>
    ELSE <<0>> \o SubSeq(data, 1, w * 3) \o
         PngScanlines(SubSeq(data, w * 3 + 1, Len(data)), w, h - 1)

\* write_image_data rejects data whose length is not width * height * 3.
PngAccepts(data, w, h) == Len(data) = w * h * 3

\* BASE64_STANDARD.encode: 3 bytes -> 4 sextets, '=' (64) padding at the end.
RECURSIVE Base64Encode(_)
Base64Encode(bytes) ==
    IF Len(bytes) = 0 THEN <<>>
    ELSE IF Len(bytes) = 1 THEN
        <<bytes[1] \div 4, (bytes[1] % 4) * 16, 64, 64>>
    ELSE IF Len(bytes) = 2 THEN
        <<bytes[1] \div 4, (bytes[1] % 4) * 16 + bytes[2] \div 16,
          (bytes[2] % 16) * 4, 64>>
    ELSE
        <<bytes[1] \div 4, (bytes[1] % 4) * 16 + bytes[2] \div 16,
          (bytes[2] % 16) * 4 + bytes[3] \div 64, bytes[3] % 64>>
        \o Base64Encode(SubSeq(bytes, 4, Len(bytes)))

\* Result<String, String>; Pending while the call has not returned.
Pending == [kind |-> "pending", error |-> "", image |-> <<>>]
Ok(v)   == [kind |-> "ok", error |-> "", image |-> v]
Err(e)  == [kind |-> "err", error |-> e, image |-> <<>>]

\* ------------------------------------------------- temp files and calls
Calls == 1 .. NumCalls

\* Faulty variant of the file name: the timestamp is taken at half the
\* resolution.
TempPath_Coarse(timestamp) ==
    [dir |-> "tmp", prefix |-> "lens_app_capture_", millis |-> timestamp \div 2,
     ext |-> ".png"]

\* format!("lens_app_capture_{}.png", timestamp) pushed onto temp_dir()
TempPath(timestamp) ==
    [dir |-> "tmp", prefix |-> "lens_app_capture_", millis |-> timestamp,
     ext |-> ".png"]

NoPath == [dir |-> "", prefix |-> "", millis |-> -1, ext |-> ""]

\* The temp directory maps the paths of the files that exist to their bytes.
FsInit == [p \in {} |-> <<>>]
Exists(dir, p) == p \in DOMAIN dir
WriteFile(dir, p, bytes) ==
    [q \in DOMAIN dir \cup {p} |-> IF q = p THEN bytes ELSE dir[q]]
DeleteFile(dir, p) == [q \in DOMAIN dir \ {p} |-> dir[q]]

\* What screencapture may write, and the statuses it may exit with.
ToolOutputs == {<<137, 80, 1>>, <<137, 80, 78, 2>>}
ExitStatuses == {0, 1, 2}

\* format!("Screen capture exited with status {}", status)
StatusMessage(status) ==
    IF status = 1 THEN "Screen capture exited with status exit status: 1"
    ELSE IF status = 2 THEN "Screen capture exited with status exit status: 2"
    ELSE "Screen capture exited with status exit status: 0"

\* The locals of one call, and what the call has done so far: launches
\* (Command::status calls), spawned (child processes started), created and
\* written (the file its child wrote), read and remove (the outcome of the
\* fs::read and fs::remove_file calls: "none" while not called).
CallInit ==
    [pc |-> "start", timestamp |-> -1, path |-> NoPath, status |-> -1,
     bytes |-> <<>>, result |-> Pending,
     launches |-> 0, spawned |-> 0, created |-> FALSE, written |-> <<>>,
     read |-> "none", remove |-> "none"]

\* ------------------------------------------------ shortcuts and config
\* The shortcut texts a frontend may send; the last one does not parse.
ShortcutTexts ==
    {"CommandOrControl+Backslash", "CommandOrControl+Enter",
     "CommandOrControl+S", "CmdOrCtrl+Enter", "Enter+"}

ParseError == [mods |-> "", key |-> ""]

\* text.parse::<Shortcut>(): modifier aliases name the same modifier.
Parse(text) ==
    IF text = "CommandOrControl+Backslash"
    THEN [mods |-> "CommandOrControl", key |-> "Backslash"]
    ELSE IF text \in {"CommandOrControl+Enter", "CmdOrCtrl+Enter"}
    THEN [mods |-> "CommandOrControl", key |-> "Enter"]
    ELSE IF text = "CommandOrControl+S"
    THEN [mods |-> "CommandOrControl", key |-> "KeyS"]
    ELSE ParseError

Parses(text) == Parse(text) # ParseError

Shortcuts == {Parse(t) : t \in ShortcutTexts} \ {ParseError}

\* impl Default for ShortcutsConfig
DefaultShortcuts ==
    [toggle |-> "CommandOrControl+Backslash",
     ask |-> "CommandOrControl+Enter",
     screen_share |-> "CommandOrControl+S"]

\* config.json: absent until the first save
NoConfigFile == [present |-> FALSE, shortcuts |-> DefaultShortcuts]
ConfigFile(sc) == [present |-> TRUE, shortcuts |-> sc]

\* load_config: the file's content, the defaults when there is no file
LoadConfig(file) == IF file.present THEN file.shortcuts ELSE DefaultShortcuts

\* global_shortcut().register: refused for a shortcut that is registered
\* already and for one the OS denies (taken by another application)
RegisterOk(reg, s, denied) == s \notin reg /\ s \notin denied
Register(reg, s, denied) == IF RegisterOk(reg, s, denied) THEN reg \cup {s} ELSE reg

\* global_shortcut().unregister
Unregister(reg, s) == reg \ {s}

\* What a command did: which command, its return value ("ok" or the error),
\* whether all its shortcut texts parse, and its calls of unregister and
\* register, of save_config (reaching fs::write) and of emit.
Did(op, ret, valid, unreg, reg, saved, emitted) ==
    [op |-> op, ret |-> ret, valid |-> valid, unregistered |-> unreg,
     registered |-> reg, saved |-> saved, emitted |-> emitted]

\* run(): the plugin is built with the three default shortcuts registered
Started == Did("run", "ok", TRUE, 0, 3, FALSE, "")

StartShortcuts ==
    {Parse("CommandOrControl+Backslash"), Parse("CommandOrControl+Enter"),
     Parse("CommandOrControl+S")}

\* ------------------------------------------------------------ abstract GDI
Resources == {"screen_dc", "mem_dc", "bitmap"}

\* held     : the objects that exist and belong to the call
\* selected : the bitmap selected into the memory DC ("none": no memory DC)
\* acquired : calls of the creating function, per object kind
\* released : calls of the releasing function, per object kind
\* log      : the GDI calls in program order
GdiInit ==
    [held     |-> [r \in Resources |-> FALSE],
     selected |-> "none",
     acquired |-> [r \in Resources |-> 0],
     released |-> [r \in Resources |-> 0],
     log      |-> <<>>]

\* GetDC(HWND::default()); ok is the OS's answer.
GetDC(g, ok) ==
    [g EXCEPT !.held.screen_dc = ok,
              !.acquired.screen_dc = @ + 1,
              !.log = Append(@, "GetDC")]

\* CreateCompatibleDC(screen_dc); a new memory DC has the default bitmap selected.
CreateCompatibleDC(g, ok) ==
    [g EXCEPT !.held.mem_dc = ok,
              !.selected = IF ok THEN "default" ELSE "none",
              !.acquired.mem_dc = @ + 1,
              !.log = Append(@, "CreateCompatibleDC")]

\* CreateCompatibleBitmap(screen_dc, width, height)
CreateCompatibleBitmap(g, ok) ==
    [g EXCEPT !.held.bitmap = ok,
              !.acquired.bitmap = @ + 1,
              !.log = Append(@, "CreateCompatibleBitmap")]

\* SelectObject(dc, obj) succeeds on a live memory DC and a live bitmap.
SelectSucceeds(g, dc, obj) ==
    /\ dc = "mem_dc" /\ g.held.mem_dc
    /\ \/ obj = "default"
       \/ obj = "bitmap" /\ g.held.bitmap

\* SelectObject returns the previously selected object, or null on failure.
SelectReturn(g, dc, obj) ==
    IF SelectSucceeds(g, dc, obj) THEN g.selected ELSE "null"

SelectObject(g, dc, obj) ==
    [g EXCEPT !.selected = IF SelectSucceeds(g, dc, obj) THEN obj ELSE @,
              !.log = Append(@, "SelectObject")]

\* DeleteObject(bitmap) fails on a bitmap that is still selected into a DC.
DeleteObject(g, obj) ==
    [g EXCEPT !.held.bitmap =
                  IF obj = "bitmap" /\ g.selected # "bitmap" THEN FALSE ELSE @,
              !.released.bitmap = @ + 1,
              !.log = Append(@, "DeleteObject")]

\* DeleteDC(mem_dc)
DeleteDC(g, dc) ==
    [g EXCEPT !.held.mem_dc = IF dc = "mem_dc" THEN FALSE ELSE @,
              !.selected = IF dc = "mem_dc" THEN "none" ELSE @,
              !.released.mem_dc = @ + 1,
              !.log = Append(@, "DeleteDC")]

\* ReleaseDC(HWND::default(), screen_dc)
ReleaseDC(g, dc) ==
    [g EXCEPT !.held.screen_dc = IF dc = "screen_dc" THEN FALSE ELSE @,
              !.released.screen_dc = @ + 1,
              !.log = Append(@, "ReleaseDC")]

\* BitBlt can only succeed between two live device contexts.
BitBltOutcomes(g, dst, src) ==
    IF dst = "mem_dc" /\ src = "screen_dc" /\ g.held.mem_dc /\ g.held.screen_dc
    THEN {"ok", "err"} ELSE {"err"}

\* GetDIBits can only succeed on a live DC and a live bitmap.
GetDIBitsCanSucceed(g, dc, bmp) ==
    dc = "mem_dc" /\ bmp = "bitmap" /\ g.held.mem_dc /\ g.held.bitmap

\* What the screen may show: the bytes of a DIB of n bytes.  Ramps give every
\* byte of the buffer a value of its own (10, 20, 30, ... or 1, 2, 3, ...).
Ramp(n, step) == [i \in 1 .. n |-> (step * i) % 256]
ScreenContents(n) == {Ramp(n, 10), Ramp(n, 1), [i \in 1 .. n |-> 7]}

\* Faulty variant of the cleanup: the screen DC is not given back.
CleanUpGdi_NoReleaseDC(g, dc, bmp, old, sdc) ==
    DeleteDC(DeleteObject(SelectObject(g, dc, old), bmp), dc)

\* Faulty variant of the cleanup: the bitmap is deleted before the previous
\* selection is restored.
CleanUpGdi_DeleteFirst(g, dc, bmp, old, sdc) ==
    ReleaseDC(DeleteDC(SelectObject(DeleteObject(g, bmp), dc, old), dc), sdc)

\* The four release statements, in the order both cleanup sites use.
CleanUpGdi(g, dc, bmp, old, sdc) ==
    ReleaseDC(DeleteDC(DeleteObject(SelectObject(g, dc, old), bmp), dc), sdc)

StepNames == {"blit", "extract", "swap", "depad", "header", "image"}

Count(step) == [steps EXCEPT ![step] = @ + 1]

\* ------------------------------------------------------------------- Init
Init ==
    /\ target_os = "windows"
    /\ clock = 0 /\ fs = FsInit /\ call = [c \in Calls |-> CallInit]
    /\ visible = TRUE /\ registered = StartShortcuts
    /\ config = NoConfigFile /\ last = Started
    /\ pc = "metrics"
    /\ width = 0 /\ height = 0
    /\ screen_dc = "unset" /\ mem_dc = "unset"
    /\ bitmap = "unset" /\ old_bitmap = "unset"
    /\ blt_result = "unset"
    /\ gdi = GdiInit
    /\ row_size = -1
    /\ dib = <<>>
    /\ scanlines = -1
    /\ pixels = <<>>
    /\ unpadded_pixels = <<>>
    /\ png_data = <<>>
    /\ steps = [s \in StepNames |-> 0]
    /\ result = Pending
    /\ swaps = 0

\* ---------------------------------------------------------------- actions
\* Faulty variant of the dimension check: width < 0 || height < 0.
QueryDimensions_Strict ==
    /\ pc = "metrics"
    /\ \E w \in Dimensions(MaxWidth), h \in Dimensions(MaxHeight) :
        /\ width' = w
        /\ height' = h
        /\ IF w < 0 \/ h < 0
           THEN /\ result' = Err("Failed to get screen dimensions")
                /\ pc' = "done"
           ELSE /\ result' = result
                /\ pc' = "GetDC"
    /\ UNCHANGED <<target_os, macVars, appVars>>
    /\ UNCHANGED <<screen_dc, mem_dc, bitmap, old_bitmap, blt_result, gdi,
                   row_size, dib, scanlines, pixels, unpadded_pixels, png_data,
                   steps, swaps>>

\* lines 16-21
QueryDimensions ==
    /\ pc = "metrics"
    /\ \E w \in Dimensions(MaxWidth), h \in Dimensions(MaxHeight) :
        /\ width' = w
        /\ height' = h
        /\ IF w <= 0 \/ h <= 0
           THEN /\ result' = Err("Failed to get screen dimensions")
                /\ pc' = "done"
           ELSE /\ result' = result
                /\ pc' = "GetDC"
    /\ UNCHANGED <<target_os, macVars, appVars>>
    /\ UNCHANGED <<screen_dc, mem_dc, bitmap, old_bitmap, blt_result, gdi,
                   row_size, dib, scanlines, pixels, unpadded_pixels, png_data,
                   steps, swaps>>

\* line 23
AcquireScreenDC ==
    /\ pc = "GetDC"
    /\ \E ok \in BOOLEAN :
        /\ gdi' = GetDC(gdi, ok)
        /\ screen_dc' = IF ok THEN "screen_dc" ELSE "null"
    /\ pc' = "CreateCompatibleDC"
    /\ UNCHANGED <<target_os, macVars, appVars>>
    /\ UNCHANGED <<width, height, mem_dc, bitmap, old_bitmap, blt_result,
                   row_size, dib, scanlines, pixels, unpadded_pixels, png_data,
                   steps, result, swaps>>

\* line 24
AcquireMemDC ==
    /\ pc = "CreateCompatibleDC"
    /\ \E ok \in BOOLEAN :
        /\ gdi' = CreateCompatibleDC(gdi, ok)
        /\ mem_dc' = IF ok THEN "mem_dc" ELSE "null"
    /\ pc' = "CreateCompatibleBitmap"
    /\ UNCHANGED <<target_os, macVars, appVars>>
    /\ UNCHANGED <<width, height, screen_dc, bitmap, old_bitmap, blt_result,
                   row_size, dib, scanlines, pixels, unpadded_pixels, png_data,
                   steps, result, swaps>>

\* line 25; no bitmap can be made compatible with a null screen DC
AcquireBitmap ==
    /\ pc = "CreateCompatibleBitmap"
    /\ \E ok \in (IF screen_dc = "screen_dc" THEN BOOLEAN ELSE {FALSE}) :
        /\ gdi' = CreateCompatibleBitmap(gdi, ok)
        /\ bitmap' = IF ok THEN "bitmap" ELSE "null"
    /\ pc' = "SelectObject"
    /\ UNCHANGED <<target_os, macVars, appVars>>
    /\ UNCHANGED <<width, height, screen_dc, mem_dc, old_bitmap, blt_result,
                   row_size, dib, scanlines, pixels, unpadded_pixels, png_data,
                   steps, result, swaps>>

\* line 26
SelectBitmap ==
    /\ pc = "SelectObject"
    /\ old_bitmap' = SelectReturn(gdi, mem_dc, bitmap)
    /\ gdi' = SelectObject(gdi, mem_dc, bitmap)
    /\ pc' = "BitBlt"
    /\ UNCHANGED <<target_os, macVars, appVars>>
    /\ UNCHANGED <<width, height, screen_dc, mem_dc, bitmap, blt_result,
                   row_size, dib, scanlines, pixels, unpadded_pixels, png_data,
                   steps, result, swaps>>

\* lines 28-29
Blit ==
    /\ pc = "BitBlt"
    /\ \E r \in BitBltOutcomes(gdi, mem_dc, screen_dc) :
        /\ blt_result' = r
        /\ pc' = IF r = "err" THEN "blit_failed" ELSE "GetDIBits"
    /\ gdi' = [gdi EXCEPT !.log = Append(@, "BitBlt")]
    /\ steps' = Count("blit")
    /\ UNCHANGED <<target_os, macVars, appVars>>
    /\ UNCHANGED <<width, height, screen_dc, mem_dc, bitmap, old_bitmap,
                   row_size, dib, scanlines, pixels, unpadded_pixels, png_data,
                   result, swaps>>

\* Faulty variant of the blit-failure branch: the return statement is missing.
BlitFailureCleanup_FallThrough ==
    /\ pc = "blit_failed"
    /\ gdi' = CleanUpGdi(gdi, mem_dc, bitmap, old_bitmap, screen_dc)
    /\ pc' = "GetDIBits"
    /\ UNCHANGED <<target_os, macVars, appVars>>
    /\ UNCHANGED <<width, height, screen_dc, mem_dc, bitmap, old_bitmap,
                   blt_result, row_size, dib, scanlines, pixels,
                   unpadded_pixels, png_data, steps, result, swaps>>

\* lines 30-34
BlitFailureCleanup ==
    /\ pc = "blit_failed"
    /\ gdi' = CleanUpGdi(gdi, mem_dc, bitmap, old_bitmap, screen_dc)
    /\ result' = Err("BitBlt failed")
    /\ pc' = "done"
    /\ UNCHANGED <<target_os, macVars, appVars>>
    /\ UNCHANGED <<width, height, screen_dc, mem_dc, bitmap, old_bitmap,
                   blt_result, row_size, dib, scanlines, pixels,
                   unpadded_pixels, png_data, steps, swaps>>

\* lines 37-68; the value GetDIBits returns is dropped
ExtractPixels ==
    /\ pc = "GetDIBits"
    /\ row_size' = RowSize(width)
    /\ \E bits \in ScreenContents(ImageSize(RowSize(width), height)),
          ok \in (IF GetDIBitsCanSucceed(gdi, mem_dc, bitmap)
                  THEN BOOLEAN ELSE {FALSE}) :
        /\ dib' = bits
        /\ scanlines' = IF ok THEN height ELSE 0
        /\ pixels' = IF ok THEN bits
                     ELSE Zeroed(ImageSize(RowSize(width), height))
    /\ gdi' = [gdi EXCEPT !.log = Append(@, "GetDIBits")]
    /\ steps' = Count("extract")
    /\ pc' = "cleanup"
    /\ UNCHANGED <<target_os, macVars, appVars>>
    /\ UNCHANGED <<width, height, screen_dc, mem_dc, bitmap, old_bitmap,
                   blt_result, unpadded_pixels, png_data, result, swaps>>

\* Faulty variant of the cleanup after extraction: it runs only when GetDIBits
\* copied scan lines.
CleanUp_OnlyOnSuccess ==
    /\ pc = "cleanup"
    /\ gdi' = IF scanlines > 0
              THEN CleanUpGdi(gdi, mem_dc, bitmap, old_bitmap, screen_dc)
              ELSE gdi
    /\ pc' = "swap"
    /\ UNCHANGED <<target_os, macVars, appVars>>
    /\ UNCHANGED <<width, height, screen_dc, mem_dc, bitmap, old_bitmap,
                   blt_result, row_size, dib, scanlines, pixels,
                   unpadded_pixels, png_data, steps, result, swaps>>

\* lines 70-74
CleanUp ==
    /\ pc = "cleanup"
    /\ gdi' = CleanUpGdi(gdi, mem_dc, bitmap, old_bitmap, screen_dc)
    /\ pc' = "swap"
    /\ UNCHANGED <<target_os, macVars, appVars>>
    /\ UNCHANGED <<width, height, screen_dc, mem_dc, bitmap, old_bitmap,
                   blt_result, row_size, dib, scanlines, pixels,
                   unpadded_pixels, png_data, steps, result, swaps>>

\* lines 76-79
ConvertBgrToRgb ==
    /\ pc = "swap"
    /\ pixels' = ChannelSwap(pixels)
    /\ steps' = Count("swap")
    /\ pc' = "depad"
    /\ UNCHANGED <<target_os, macVars, appVars>>
    /\ UNCHANGED <<width, height, screen_dc, mem_dc, bitmap, old_bitmap,
                   blt_result, gdi, row_size, dib, scanlines, unpadded_pixels,
                   png_data, result, swaps>>

\* lines 81-87
RemoveRowPadding ==
    /\ pc = "depad"
    /\ unpadded_pixels' = RemovePadding(pixels, width, height, row_size)
    /\ steps' = Count("depad")
    /\ pc' = "write_header"
    /\ UNCHANGED <<target_os, macVars, appVars>>
    /\ UNCHANGED <<width, height, screen_dc, mem_dc, bitmap, old_bitmap,
                   blt_result, gdi, row_size, dib, scanlines, pixels,
                   png_data, result, swaps>>

\* lines 90-95; the encoder may report an error
WriteHeader ==
    /\ pc = "write_header"
    /\ steps' = Count("header")
    /\ \E ok \in BOOLEAN :
        IF ok
        THEN /\ png_data' = PngHeader(width, height)
             /\ result' = result
             /\ pc' = "write_image_data"
        ELSE /\ png_data' = png_data
             /\ result' = Err("png header error")
             /\ pc' = "done"
    /\ UNCHANGED <<target_os, macVars, appVars>>
    /\ UNCHANGED <<width, height, screen_dc, mem_dc, bitmap, old_bitmap,
                   blt_result, gdi, row_size, dib, scanlines, pixels,
                   unpadded_pixels, swaps>>

\* line 96
WriteImageData ==
    /\ pc = "write_image_data"
    /\ steps' = Count("image")
    /\ \E ok \in (IF PngAccepts(unpadded_pixels, width, height)
                  THEN BOOLEAN ELSE {FALSE}) :
        IF ok
        THEN /\ png_data' = png_data \o PngScanlines(unpadded_pixels, width, height)
             /\ result' = result
             /\ pc' = "encode"
        ELSE /\ png_data' = png_data
             /\ result' = Err("png image data error")
             /\ pc' = "done"
    /\ UNCHANGED <<target_os, macVars, appVars>>
    /\ UNCHANGED <<width, height, screen_dc, mem_dc, bitmap, old_bitmap,
                   blt_result, gdi, row_size, dib, scanlines, pixels,
                   unpadded_pixels, swaps>>

\* line 99
ReturnImage ==
    /\ pc = "encode"
    /\ result' = Ok(Base64Encode(png_data))
    /\ pc' = "done"
    /\ UNCHANGED <<target_os, macVars, appVars>>
    /\ UNCHANGED <<width, height, screen_dc, mem_dc, bitmap, old_bitmap,
                   blt_result, gdi, row_size, dib, scanlines, pixels,
                   unpadded_pixels, png_data, steps, swaps>>

Next ==
    \/ QueryDimensions
    \/ AcquireScreenDC
    \/ AcquireMemDC
    \/ AcquireBitmap
    \/ SelectBitmap
    \/ Blit
    \/ BlitFailureCleanup
    \/ ExtractPixels
    \/ CleanUp
    \/ ConvertBgrToRgb
    \/ RemoveRowPadding
    \/ WriteHeader
    \/ WriteImageData
    \/ ReturnImage

Spec == Init /\ [][Next]_vars

\* ------------------------------------------------------------- KernelSpec
\* The pure computations of capture_screen on their own: the row size of any
\* non-negative width and the channel swap of any buffer, applied repeatedly.
Buffers(maxLen) == UNION {[1 .. n -> SampleBytes] : n \in 0 .. maxLen}

KernelInit ==
    /\ target_os = "windows"
    /\ clock = 0 /\ fs = FsInit /\ call = [c \in Calls |-> CallInit]
    /\ visible = TRUE /\ registered = StartShortcuts
    /\ config = NoConfigFile /\ last = Started
    /\ pc = "kernel"
    /\ width \in 0 .. MaxWidth
    /\ height = 0
    /\ screen_dc = "unset" /\ mem_dc = "unset"
    /\ bitmap = "unset" /\ old_bitmap = "unset"
    /\ blt_result = "unset"
    /\ gdi = GdiInit
    /\ row_size = -1
    /\ dib \in Buffers(MaxLen)
    /\ scanlines = -1
    /\ pixels = dib
    /\ unpadded_pixels = <<>>
    /\ png_data = <<>>
    /\ steps = [s \in StepNames |-> 0]
    /\ result = Pending
    /\ swaps = 0

\* line 56 on its own
KernelRowSize ==
    /\ pc = "kernel"
    /\ row_size = -1
    /\ row_size' = RowSize(width)
    /\ UNCHANGED <<target_os, macVars, appVars>>
    /\ UNCHANGED <<pc, width, height, screen_dc, mem_dc, bitmap, old_bitmap,
                   blt_result, gdi, dib, scanlines, pixels, unpadded_pixels,
                   png_data, steps, result, swaps>>

\* lines 77-79 on their own
KernelChannelSwap ==
    /\ pc = "kernel"
    /\ swaps < MaxSwaps
    /\ pixels' = ChannelSwap(pixels)
    /\ swaps' = swaps + 1
    /\ UNCHANGED <<target_os, macVars, appVars>>
    /\ UNCHANGED <<pc, width, height, screen_dc, mem_dc, bitmap, old_bitmap,
                   blt_result, gdi, row_size, dib, scanlines, unpadded_pixels,
                   png_data, steps, result>>

KernelNext ==
    \/ KernelRowSize
    \/ KernelChannelSwap

KernelSpec == KernelInit /\ [][KernelNext]_vars

\* ---------------------------------------------------------------- MacSpec
\* Everything but the target OS, as it is before any call.
Entry ==
    /\ clock = 0 /\ fs = FsInit /\ call = [c \in Calls |-> CallInit]
    /\ visible = TRUE /\ registered = StartShortcuts
    /\ config = NoConfigFile /\ last = Started
    /\ pc = "metrics"
    /\ width = 0 /\ height = 0
    /\ screen_dc = "unset" /\ mem_dc = "unset"
    /\ bitmap = "unset" /\ old_bitmap = "unset"
    /\ blt_result = "unset"
    /\ gdi = GdiInit
    /\ row_size = -1
    /\ dib = <<>>
    /\ scanlines = -1
    /\ pixels = <<>>
    /\ unpadded_pixels = <<>>
    /\ png_data = <<>>
    /\ steps = [s \in StepNames |-> 0]
    /\ result = Pending
    /\ swaps = 0

MacInit == target_os = "macos" /\ Entry

Return(c, res) == [call EXCEPT ![c].result = res, ![c].pc = "done"]

\* The wall clock advances between and during calls.
Tick ==
    /\ clock < MaxClock
    /\ clock' = clock + 1
    /\ UNCHANGED <<appVars, winVars, target_os, fs, call>>

\* Faulty variant of the path computation: the file name also carries the
\* identity of the call.
MacComputePath_PerCall(c) ==
    /\ call[c].pc = "start"
    /\ \E outcome \in {"ok", "clock", "utf8"} :
        call' = IF outcome = "clock"
                THEN Return(c, Err("second time provided was later than self"))
                ELSE IF outcome = "utf8"
                THEN [Return(c, Err("Invalid temp path")) EXCEPT
                          ![c].timestamp = clock,
                          ![c].path = TempPath(clock * (NumCalls + 1) + c)]
                ELSE [call EXCEPT ![c].timestamp = clock,
                                  ![c].path = TempPath(clock * (NumCalls + 1) + c),
                                  ![c].pc = "screencapture"]
    /\ UNCHANGED <<appVars, winVars, target_os, clock, fs>>

\* lines 10-18: the timestamp, the file name, the path and its text; the clock
\* may be before the epoch and the temp directory may not be valid UTF-8
MacComputePath(c) ==
    /\ call[c].pc = "start"
    /\ \E outcome \in {"ok", "clock", "utf8"} :
        call' = IF outcome = "clock"
                THEN Return(c, Err("second time provided was later than self"))
                ELSE IF outcome = "utf8"
                THEN [Return(c, Err("Invalid temp path")) EXCEPT
                          ![c].timestamp = clock,
                          ![c].path = TempPath(clock)]
                ELSE [call EXCEPT ![c].timestamp = clock,
                                  ![c].path = TempPath(clock),
                                  ![c].pc = "screencapture"]
    /\ UNCHANGED <<appVars, winVars, target_os, clock, fs>>

\* Faulty variant of the tool invocation: a failed launch is tried once more.
MacRunScreencapture_Retry(c) ==
    /\ call[c].pc = "screencapture"
    /\ \/ /\ call' = IF call[c].launches = 0
                     THEN [call EXCEPT ![c].launches = @ + 1]
                     ELSE [Return(c, Err("No such file or directory (os error 2)"))
                               EXCEPT ![c].launches = @ + 1]
          /\ fs' = fs
       \/ \E wrote \in BOOLEAN, data \in ToolOutputs, st \in ExitStatuses :
            /\ fs' = IF wrote THEN WriteFile(fs, call[c].path, data) ELSE fs
            /\ call' = [call EXCEPT ![c].launches = @ + 1,
                                    ![c].spawned = @ + 1,
                                    ![c].created = wrote,
                                    ![c].written = IF wrote THEN data ELSE <<>>,
                                    ![c].status = st,
                                    ![c].pc = "status"]
    /\ UNCHANGED <<appVars, winVars, target_os, clock>>

\* lines 20-23: one Command::status(); the launch may fail; a launched child
\* may or may not write the file, and exits with any status
MacRunScreencapture(c) ==
    /\ call[c].pc = "screencapture"
    /\ \/ /\ call' = [Return(c, Err("No such file or directory (os error 2)"))
                          EXCEPT ![c].launches = @ + 1]
          /\ fs' = fs
       \/ \E wrote \in BOOLEAN, data \in ToolOutputs, st \in ExitStatuses :
            /\ fs' = IF wrote THEN WriteFile(fs, call[c].path, data) ELSE fs
            /\ call' = [call EXCEPT ![c].launches = @ + 1,
                                    ![c].spawned = @ + 1,
                                    ![c].created = wrote,
                                    ![c].written = IF wrote THEN data ELSE <<>>,
                                    ![c].status = st,
                                    ![c].pc = "status"]
    /\ UNCHANGED <<appVars, winVars, target_os, clock>>

\* Faulty variant of the status check: the exit status is not looked at.
MacCheckStatus_Ignored(c) ==
    /\ call[c].pc = "status"
    /\ call' = [call EXCEPT ![c].pc = "read"]
    /\ UNCHANGED <<appVars, winVars, target_os, clock, fs>>

\* lines 25-27
MacCheckStatus(c) ==
    /\ call[c].pc = "status"
    /\ call' = IF call[c].status # 0
               THEN Return(c, Err(StatusMessage(call[c].status)))
               ELSE [call EXCEPT ![c].pc = "read"]
    /\ UNCHANGED <<appVars, winVars, target_os, clock, fs>>

\* The io::Error text of a failed fs call.
IoError(dir, p) ==
    IF Exists(dir, p) THEN "Permission denied (os error 13)"
    ELSE "No such file or directory (os error 2)"

\* Faulty variant of the read: the file is read as text, every byte that is
\* not ASCII becomes '?'.
MacReadFile_Lossy(c) ==
    /\ call[c].pc = "read"
    /\ \E ok \in (IF Exists(fs, call[c].path) THEN BOOLEAN ELSE {FALSE}) :
        call' = IF ok
                THEN [call EXCEPT
                          ![c].bytes = [i \in 1 .. Len(fs[call[c].path]) |->
                                           IF fs[call[c].path][i] > 127 THEN 63
                                           ELSE fs[call[c].path][i]],
                          ![c].read = "ok",
                          ![c].pc = "remove"]
                ELSE [Return(c, Err(IoError(fs, call[c].path)))
                          EXCEPT ![c].read = "err"]
    /\ UNCHANGED <<appVars, winVars, target_os, clock, fs>>

\* line 29: fs::read fails on a missing file and may fail on an existing one
MacReadFile(c) ==
    /\ call[c].pc = "read"
    /\ \E ok \in (IF Exists(fs, call[c].path) THEN BOOLEAN ELSE {FALSE}) :
        call' = IF ok
                THEN [call EXCEPT ![c].bytes = fs[call[c].path],
                                  ![c].read = "ok",
                                  ![c].pc = "remove"]
                ELSE [Return(c, Err(IoError(fs, call[c].path)))
                          EXCEPT ![c].read = "err"]
    /\ UNCHANGED <<appVars, winVars, target_os, clock, fs>>

\* Faulty variant of the delete: its result is dropped.
MacRemoveFile_Ignored(c) ==
    /\ call[c].pc = "remove"
    /\ \E ok \in (IF Exists(fs, call[c].path) THEN BOOLEAN ELSE {FALSE}) :
        /\ fs' = IF ok THEN DeleteFile(fs, call[c].path) ELSE fs
        /\ call' = [call EXCEPT ![c].remove = IF ok THEN "ok" ELSE "err",
                                ![c].pc = "encode"]
    /\ UNCHANGED <<appVars, winVars, target_os, clock>>

\* line 30: fs::remove_file fails on a missing file and may fail on an
\* existing one, which then stays
MacRemoveFile(c) ==
    /\ call[c].pc = "remove"
    /\ \E ok \in (IF Exists(fs, call[c].path) THEN BOOLEAN ELSE {FALSE}) :
        IF ok
        THEN /\ fs' = DeleteFile(fs, call[c].path)
             /\ call' = [call EXCEPT ![c].remove = "ok", ![c].pc = "encode"]
        ELSE /\ fs' = fs
             /\ call' = [Return(c, Err(IoError(fs, call[c].path)))
                             EXCEPT ![c].remove = "err"]
    /\ UNCHANGED <<appVars, winVars, target_os, clock>>

\* line 32
MacReturnImage(c) ==
    /\ call[c].pc = "encode"
    /\ call' = Return(c, Ok(Base64Encode(call[c].bytes)))
    /\ UNCHANGED <<appVars, winVars, target_os, clock, fs>>

MacNext ==
    \/ Tick
    \/ \E c \in Calls :
        \/ MacComputePath(c)
        \/ MacRunScreencapture(c)
        \/ MacCheckStatus(c)
        \/ MacReadFile(c)
        \/ MacRemoveFile(c)
        \/ MacReturnImage(c)

MacSpec == MacInit /\ [][MacNext]_vars

\* -------------------------------------------------------------- BuildSpec
TargetOS == {"macos", "windows", "linux", "android", "ios"}

\* capture/mod.rs: the cfg predicate on each backend module
CfgMacos(os) == os = "macos"
CfgWindows(os) == os = "windows"
\* Faulty variant of the stub's predicate: #[cfg(not(target_os = "macos"))]
CfgUnsupported_NotMacos(os) == ~(os = "macos")
CfgUnsupported(os) == ~(os = "macos" \/ os = "windows")

\* The backends whose capture_screen the build contains.
LinkedBackends(os) ==
    {b \in {"macos", "windows", "unsupported"} :
        \/ b = "macos" /\ CfgMacos(os)
        \/ b = "windows" /\ CfgWindows(os)
        \/ b = "unsupported" /\ CfgUnsupported(os)}

\* capture/unsupported.rs
StubCaptureScreen ==
    /\ pc = "metrics"
    /\ result' = Err("Screen capture is not supported on this platform")
    /\ pc' = "done"
    /\ UNCHANGED <<target_os, macVars, appVars>>
    /\ UNCHANGED <<width, height, screen_dc, mem_dc, bitmap, old_bitmap,
                   blt_result, gdi, row_size, dib, scanlines, pixels,
                   unpadded_pixels, png_data, steps, swaps>>

BuildInit == target_os \in TargetOS /\ Entry

BuildNext ==
    \/ "windows" \in LinkedBackends(target_os) /\ Next
    \/ "macos" \in LinkedBackends(target_os) /\ MacNext
    \/ "unsupported" \in LinkedBackends(target_os) /\ StubCaptureScreen

BuildSpec == BuildInit /\ [][BuildNext]_vars

\* ---------------------------------------------------------------- AppSpec
\* The window and shortcut commands, called in any order after run().

\* What the OS refuses to register in one command call.
DeniedSets == {{}, {Parse("CommandOrControl+S")}}

ActionNames == {"toggle", "ask", "screen_share", "other"}

\* if let Ok(s) = text.parse::<Shortcut>() { let _ = unregister(s); }
UnregisterText(reg, text) ==
    IF Parses(text) THEN Unregister(reg, Parse(text)) ELSE reg

\* if let Ok(s) = text.parse::<Shortcut>() { let _ = register(s); }
RegisterText(reg, text, denied) ==
    IF Parses(text) THEN Register(reg, Parse(text), denied) ELSE reg

RegisterOptionalShortcuts(reg, file, denied) ==
    LET shortcuts == LoadConfig(file)
    IN  RegisterText(RegisterText(reg, shortcuts.ask, denied),
                     shortcuts.screen_share, denied)

UnregisterOptionalShortcuts(reg, file) ==
    LET shortcuts == LoadConfig(file)
    IN  UnregisterText(UnregisterText(reg, shortcuts.ask),
                       shortcuts.screen_share)

\* toggle_window: windowOk is "the main window exists and is_visible() is
\* Ok"; changed is the outcome of hide() or show(), which the code discards.
ToggleWindow(windowOk, changed, denied) ==
    /\ IF ~windowOk
       THEN /\ last' = Did("toggle_window", "ok", TRUE, 0, 0, FALSE, "")
            /\ UNCHANGED <<visible, registered>>
       ELSE IF visible
       THEN /\ visible' = IF changed THEN FALSE ELSE visible
            /\ registered' = UnregisterOptionalShortcuts(registered, config)
            /\ last' = Did("toggle_window", "ok", TRUE, 2, 0, FALSE,
                           "window-hidden")
       ELSE /\ visible' = IF changed THEN TRUE ELSE visible
            /\ registered' = RegisterOptionalShortcuts(registered, config, denied)
            /\ last' = Did("toggle_window", "ok", TRUE, 0, 2, FALSE,
                           "window-shown")
    /\ UNCHANGED <<config, winVars, target_os, macVars>>

AllParse(new_shortcuts) ==
    /\ Parses(new_shortcuts.toggle)
    /\ Parses(new_shortcuts.ask)
    /\ Parses(new_shortcuts.screen_share)

UnregisterOld(reg, old_shortcuts) ==
    UnregisterText(UnregisterText(UnregisterText(reg, old_shortcuts.toggle),
                                  old_shortcuts.ask),
                   old_shortcuts.screen_share)

\* Faulty variant of set_shortcuts: the old shortcuts are unregistered before
\* the new ones are validated.
SetShortcuts_ValidateLate(new_shortcuts, denied, saveOk) ==
    LET old_shortcuts == LoadConfig(config)
        r0 == UnregisterOld(registered, old_shortcuts)
    IN  /\ ~AllParse(new_shortcuts)
        /\ registered' = r0
        /\ last' = Did("set_shortcuts", "parse", FALSE, 3, 0, FALSE, "")
        /\ UNCHANGED <<visible, config, winVars, target_os, macVars>>

\* set_shortcuts
SetShortcuts(new_shortcuts, denied, saveOk) ==
    LET old_shortcuts == LoadConfig(config)
        new_toggle == Parse(new_shortcuts.toggle)
        new_ask == Parse(new_shortcuts.ask)
        new_screen_share == Parse(new_shortcuts.screen_share)
        r0 == UnregisterOld(registered, old_shortcuts)
        r1 == Register(r0, new_toggle, denied)
        r2 == Register(r1, new_ask, denied)
        r3 == Register(r2, new_screen_share, denied)
        errors == \/ ~RegisterOk(r0, new_toggle, denied)
                  \/ ~RegisterOk(r1, new_ask, denied)
                  \/ ~RegisterOk(r2, new_screen_share, denied)
    IN  /\ IF ~AllParse(new_shortcuts)
           THEN /\ last' = Did("set_shortcuts", "parse", FALSE, 0, 0, FALSE, "")
                /\ UNCHANGED <<registered, config>>
           ELSE /\ registered' = r3
                /\ IF errors
                   THEN /\ last' = Did("set_shortcuts", "register", TRUE, 3, 3,
                                       FALSE, "")
                        /\ UNCHANGED config
                   ELSE IF ~saveOk
                   THEN /\ last' = Did("set_shortcuts", "save", TRUE, 3, 3,
                                       FALSE, "")
                        /\ UNCHANGED config
                   ELSE /\ last' = Did("set_shortcuts", "ok", TRUE, 3, 3, TRUE,
                                       "shortcuts-changed")
                        /\ config' = ConfigFile(new_shortcuts)
        /\ UNCHANGED <<visible, winVars, target_os, macVars>>

\* update_shortcut
UpdateShortcut(action, new_shortcut, denied, saveOk) ==
    LET shortcuts == LoadConfig(config)
        new_parsed == Parse(new_shortcut)
        conflict ==
            \/ action # "toggle" /\ shortcuts.toggle = new_shortcut
            \/ action # "ask" /\ shortcuts.ask = new_shortcut
            \/ action # "screen_share" /\ shortcuts.screen_share = new_shortcut
        r0 == UnregisterText(registered, shortcuts[action])
    IN  /\ IF action \notin {"toggle", "ask", "screen_share"}
           THEN /\ last' = Did("update_shortcut", "Invalid action",
                               Parses(new_shortcut), 0, 0, FALSE, "")
                /\ UNCHANGED <<registered, config>>
           ELSE IF ~Parses(new_shortcut)
           THEN /\ last' = Did("update_shortcut", "parse", FALSE, 0, 0, FALSE, "")
                /\ UNCHANGED <<registered, config>>
           ELSE IF conflict
           THEN /\ last' = Did("update_shortcut", "Shortcut already in use",
                               TRUE, 0, 0, FALSE, "")
                /\ UNCHANGED <<registered, config>>
           ELSE /\ registered' = Register(r0, new_parsed, denied)
                /\ IF ~RegisterOk(r0, new_parsed, denied)
                   THEN /\ last' = Did("update_shortcut", "register", TRUE, 1, 1,
                                       FALSE, "")
                        /\ UNCHANGED config
                   ELSE IF ~saveOk
                   THEN /\ last' = Did("update_shortcut", "save", TRUE, 1, 1,
                                       FALSE, "")
                        /\ UNCHANGED config
                   ELSE /\ last' = Did("update_shortcut", "ok", TRUE, 1, 1, TRUE,
                                       "shortcuts-changed")
                        /\ config' = ConfigFile([shortcuts EXCEPT
                                                    ![action] = new_shortcut])
        /\ UNCHANGED <<visible, winVars, target_os, macVars>>

AppInit == target_os = "macos" /\ Entry

AppNext ==
    \/ \E windowOk, changed \in BOOLEAN, denied \in DeniedSets :
           ToggleWindow(windowOk, changed, denied)
    \/ \E new_shortcuts \in [toggle : ShortcutTexts, ask : ShortcutTexts,
                             screen_share : ShortcutTexts],
          denied \in DeniedSets, saveOk \in BOOLEAN :
           SetShortcuts(new_shortcuts, denied, saveOk)
    \/ \E action \in ActionNames, new_shortcut \in ShortcutTexts,
          denied \in DeniedSets, saveOk \in BOOLEAN :
           UpdateShortcut(action, new_shortcut, denied, saveOk)

AppSpec == AppInit /\ [][AppNext]_vars

\* ----------------------------------------------------------------- claims
AllAcquired ==
    /\ screen_dc = "screen_dc" /\ mem_dc = "mem_dc"
    /\ bitmap = "bitmap" /\ old_bitmap = "default"

ReleasedOnceEach ==
    \A r \in Resources : gdi.released[r] = 1 /\ ~gdi.held[r]

\* C1: on every exit path after handle acquisition (success, blit failure,
\* PNG header failure, PNG pixel-write failure) the screen DC, the memory DC
\* and the bitmap have each been released exactly once when the call returns:
\* none is still held, none is released twice.
C1_ReleasedExactlyOnce ==
    /\ \A r \in Resources : gdi.released[r] <= 1
    /\ (pc = "done" /\ gdi.acquired.screen_dc > 0) => ReleasedOnceEach

C1_Witness ==
    /\ pc = "done" /\ AllAcquired
    /\ result = Err("png image data error")
    /\ ReleasedOnceEach

\* C2: when BitBlt fails the call restores the bitmap selection, releases the
\* bitmap, the memory DC and the screen DC once each, extracts and encodes
\* nothing, and returns the BitBlt error without an image.
C2_BlitFailure ==
    (pc = "done" /\ blt_result = "err") =>
        /\ result = Err("BitBlt failed")
        /\ ReleasedOnceEach
        /\ Len(gdi.log) >= 5
        /\ SubSeq(gdi.log, Len(gdi.log) - 4, Len(gdi.log)) =
               <<"BitBlt", "SelectObject", "DeleteObject", "DeleteDC", "ReleaseDC">>
        /\ steps = [s \in StepNames |-> IF s = "blit" THEN 1 ELSE 0]
        /\ scanlines = -1 /\ pixels = <<>> /\ unpadded_pixels = <<>>
        /\ png_data = <<>>

C2_Witness ==
    /\ pc = "done" /\ blt_result = "err" /\ AllAcquired
    /\ result = Err("BitBlt failed")

\* C3: a zero or negative width or height makes the call fail with the
\* dimension error, and no GDI object is acquired at any point of the call.
C3_DimensionFailure ==
    (pc # "metrics" /\ (width <= 0 \/ height <= 0)) =>
        /\ pc = "done"
        /\ result = Err("Failed to get screen dimensions")
        /\ \A r \in Resources : gdi.acquired[r] = 0 /\ ~gdi.held[r]
        /\ gdi.log = <<>>

C3_Witness ==
    /\ pc = "done" /\ width = 0 /\ height > 0
    /\ result = Err("Failed to get screen dimensions")

\* C4: when GetDIBits fails the call releases what it acquired and returns a
\* pixel-extraction error; it never returns a successful image built from the
\* unfilled buffer.
C4_ExtractionFailureReported ==
    (pc = "done" /\ scanlines = 0) =>
        /\ result = Err("PixelExtractionFailed")
        /\ ReleasedOnceEach

\* C5: after channel swap and de-padding, every pixel (r, c) of the packed
\* output is the input pixel at offset r*rowStride + 3*c with its first and
\* third bytes exchanged, for every width, height and row.
C5_PixelPipeline ==
    (steps["depad"] = 1 /\ scanlines = height) =>
        \A r \in 0 .. height - 1 : \A c \in 0 .. width - 1 :
            LET out == (r * width + c) * 3
                in  == r * row_size + 3 * c
            IN  /\ unpadded_pixels[out + 1] = dib[in + 3]
                /\ unpadded_pixels[out + 2] = dib[in + 2]
                /\ unpadded_pixels[out + 3] = dib[in + 1]

\* C6: de-padding reads, for each row r, the bytes [r*rowStride,
\* r*rowStride + width*3), all inside the raw buffer of rowStride*height
\* bytes, and the packed output has exactly width*height*3 bytes whatever the
\* padding (0 to 3 bytes per row).
C6_DepadBounds ==
    steps["depad"] = 1 =>
        /\ Len(pixels) = row_size * height
        /\ row_size - width * 3 \in 0 .. 3
        /\ \A r \in 0 .. height - 1 :
               r * row_size >= 0 /\ r * row_size + width * 3 <= Len(pixels)
        /\ Len(unpadded_pixels) = width * height * 3

C6_Witness ==
    /\ steps["depad"] = 1 /\ width = 3 /\ height = 3
    /\ row_size = 12 /\ Len(unpadded_pixels) = 27

\* C7: the row size is the smallest multiple of 4 that is >= width*3, for
\* every non-negative width.
C7_RowStride ==
    row_size # -1 =>
        /\ row_size % 4 = 0
        /\ row_size >= width * 3
        /\ \A m \in 0 .. row_size - 1 : m % 4 = 0 => m < width * 3

C7_Witness ==
    pc = "kernel" /\ width = 5 /\ row_size = 16

\* C8 as stated: the row sizes for widths 4, 5, 6 and 7 are 12, 16, 16 and 20.
C8_Original ==
    row_size # -1 =>
        /\ width = 4 => row_size = 12
        /\ width = 5 => row_size = 16
        /\ width = 6 => row_size = 16
        /\ width = 7 => row_size = 20

\* C8 as amended: the row sizes for widths 4, 5, 6 and 7 are 12, 16, 20 and 24.
C8_RowStrideValues ==
    row_size # -1 =>
        /\ width = 4 => row_size = 12
        /\ width = 5 => row_size = 16
        /\ width = 6 => row_size = 20
        /\ width = 7 => row_size = 24

C8_Witness ==
    pc = "done" /\ result.kind = "ok" /\ width = 7 /\ row_size = 24

EndToEndInput ==
    /\ width = 2 /\ height = 1
    /\ steps["depad"] = 1 /\ scanlines = height
    /\ Len(dib) >= 6
    /\ SubSeq(dib, 1, 6) = <<10, 20, 30, 40, 50, 60>>

\* C9 as stated: for width 2 and height 1 the raw buffer has rowStride(2) = 4
\* bytes, and BGR input [10,20,30, 40,50,60] plus padding is packed to
\* [30,20,10, 60,50,40].
C9_Original ==
    EndToEndInput =>
        /\ row_size = 4 /\ Len(dib) = 4
        /\ unpadded_pixels = <<30, 20, 10, 60, 50, 40>>

\* C9 as amended: for width 2 and height 1 the raw buffer has rowStride(2) = 8
\* bytes (6 pixel bytes and 2 padding bytes), and BGR input [10,20,30,
\* 40,50,60] plus the 2 padding bytes is packed to [30,20,10, 60,50,40].
C9_EndToEnd ==
    EndToEndInput =>
        /\ row_size = 8 /\ Len(dib) = 8 /\ Len(pixels) = 8
        /\ unpadded_pixels = <<30, 20, 10, 60, 50, 40>>

C9_Witness ==
    EndToEndInput /\ pc = "done" /\ unpadded_pixels = <<30, 20, 10, 60, 50, 40>>

\* C10: the channel swap is its own inverse: applied twice to a buffer of any
\* length, a multiple of 3 or not, it gives the original buffer back.
C10_SwapInvolution ==
    (pc = "kernel" /\ swaps % 2 = 0) => pixels = dib

C10_Witness ==
    /\ pc = "kernel" /\ swaps = 2
    /\ Len(dib) = 4 /\ dib[1] # dib[3]
    /\ pixels = dib

ReleaseOrder == <<"SelectObject", "DeleteObject", "DeleteDC", "ReleaseDC">>

LastCalls(n) ==
    IF Len(gdi.log) < n THEN <<>>
    ELSE SubSeq(gdi.log, Len(gdi.log) - n + 1, Len(gdi.log))

AfterCleanUp ==
    pc \in {"swap", "depad", "write_header", "write_image_data", "encode", "done"}

\* C18: on the blit-failure path and on the normal path alike the release
\* steps run in the order: previous selection restored, bitmap deleted, memory
\* DC deleted, screen DC released; the bitmap is never deleted while it is
\* still selected into the memory DC (its deletion takes effect).
C18_ReleaseOrder ==
    /\ (pc = "done" /\ blt_result = "err") =>
           /\ LastCalls(5) = <<"BitBlt">> \o ReleaseOrder
           /\ ~gdi.held.bitmap
    /\ (AfterCleanUp /\ blt_result = "ok") =>
           /\ LastCalls(5) = <<"GetDIBits">> \o ReleaseOrder
           /\ ~gdi.held.bitmap

C18_Witness ==
    /\ pc = "done" /\ blt_result = "ok" /\ AllAcquired
    /\ LastCalls(4) = ReleaseOrder
    /\ ~gdi.held.bitmap /\ gdi.released.bitmap = 1

\* C19: once the blit has succeeded the four releases run whether pixel
\* extraction succeeded or failed, and they are complete before the channel
\* swap, the de-padding and the PNG encoding start: a later failure returns
\* with no handle held.
C19_CleanUpUnconditional ==
    /\ (AfterCleanUp /\ blt_result = "ok") =>
           /\ scanlines \in {0, height}
           /\ ReleasedOnceEach
           /\ LastCalls(4) = ReleaseOrder
    /\ (steps["swap"] > 0 \/ steps["depad"] > 0 \/ steps["header"] > 0
            \/ steps["image"] > 0) => ReleasedOnceEach

C19_Witness ==
    /\ pc = "done" /\ blt_result = "ok" /\ AllAcquired
    /\ scanlines = 0
    /\ result = Err("png image data error")
    /\ ReleasedOnceEach

\* C20: the in-place channel swap exchanges the first and third byte of each
\* pixel of each row and leaves every row-padding byte at its position with
\* its value.
C20_SwapLeavesPadding ==
    (steps["swap"] = 1 /\ scanlines = height) =>
        \A r \in 0 .. height - 1 :
            /\ \A c \in 0 .. width - 1 :
                   LET at == r * row_size + 3 * c
                   IN  /\ pixels[at + 1] = dib[at + 3]
                       /\ pixels[at + 2] = dib[at + 2]
                       /\ pixels[at + 3] = dib[at + 1]
            /\ \A p \in width * 3 + 1 .. row_size :
                   pixels[r * row_size + p] = dib[r * row_size + p]

\* ------------------------------------------- claims, external-tool backend
\* No other call has begun.
Alone(c) == \A d \in Calls \ {c} : call[d].pc = "start"

Returned(c) == call[c].pc = "done"

IoErrors == {"Permission denied (os error 13)",
             "No such file or directory (os error 2)"}

\* C11: in a single call, if the tool writes N bytes to the computed path and
\* exits with success, and the read and the delete succeed, the call returns
\* Ok with the base64 text of exactly those bytes and the temp file does not
\* exist when the call returns.
C11_SingleCallSuccess ==
    \A c \in Calls :
        (/\ Returned(c) /\ Alone(c)
         /\ call[c].created /\ call[c].status = 0
         /\ call[c].read = "ok" /\ call[c].remove = "ok") =>
            /\ call[c].result = Ok(Base64Encode(call[c].written))
            /\ ~Exists(fs, call[c].path)

C11_Witness ==
    \E c \in Calls :
        /\ Returned(c) /\ Alone(c)
        /\ call[c].created /\ call[c].status = 0
        /\ call[c].read = "ok" /\ call[c].remove = "ok"
        /\ call[c].written = <<137, 80, 78, 2>>
        /\ call[c].result = Ok(<<34, 21, 1, 14, 0, 32, 64, 64>>)
        /\ ~Exists(fs, call[c].path)

\* C12: if the tool exits with a non-success status the call returns the
\* error that carries that status and no image bytes, and it neither reads nor
\* deletes the temp file: the file is as the tool left it.
C12_ToolFailure ==
    \A c \in Calls :
        (Returned(c) /\ call[c].status \notin {-1, 0}) =>
            /\ call[c].result = Err(StatusMessage(call[c].status))
            /\ call[c].bytes = <<>>
            /\ call[c].read = "none" /\ call[c].remove = "none"
            /\ Alone(c) =>
                   /\ Exists(fs, call[c].path) = call[c].created
                   /\ call[c].created => fs[call[c].path] = call[c].written

C12_Witness ==
    \E c \in Calls :
        /\ Returned(c) /\ call[c].status = 2 /\ call[c].created /\ Alone(c)
        /\ call[c].result = Err(StatusMessage(2))
        /\ Exists(fs, call[c].path)

\* C13: on every exit path of a call in which the tool created the file
\* (success, non-zero tool exit, read failure) the temp file does not exist
\* when the call returns.
C13_AlwaysDeleted ==
    \A c \in Calls :
        (Returned(c) /\ Alone(c) /\ call[c].created /\ call[c].remove # "err") =>
            ~Exists(fs, call[c].path)

\* C14: if the temp file was read but deleting it fails, the call returns an
\* I/O error and not the image bytes it has read.
C14_DeleteFailure ==
    \A c \in Calls :
        (Returned(c) /\ call[c].read = "ok" /\ call[c].remove = "err") =>
            /\ call[c].result.kind = "err"
            /\ call[c].result.error \in IoErrors
            /\ call[c].result.image = <<>>

C14_Witness ==
    \E c \in Calls :
        /\ Returned(c) /\ Alone(c)
        /\ call[c].read = "ok" /\ call[c].remove = "err"
        /\ call[c].bytes = call[c].written /\ call[c].bytes # <<>>
        /\ Exists(fs, call[c].path)
        /\ call[c].result = Err("Permission denied (os error 13)")

\* C15: two calls that obtain the same millisecond timestamp compute the same
\* temp path; the witness is an interleaving in which a call whose own tool
\* wrote its file and exited with success returns the bytes written by the
\* other call's tool.
C15_SameMillisSamePath ==
    \A c, d \in Calls :
        (call[c].timestamp # -1 /\ call[c].timestamp = call[d].timestamp) =>
            call[c].path = call[d].path

C15_Witness ==
    \E c, d \in Calls :
        /\ c # d
        /\ call[c].timestamp = call[d].timestamp
        /\ Returned(c) /\ call[c].created /\ call[c].status = 0
        /\ call[d].created /\ call[d].written # call[c].written
        /\ call[c].result = Ok(Base64Encode(call[d].written))

NoCallBegun == \A c \in Calls : call[c] = CallInit

\* C16: every target OS selects exactly one backend (macos: external tool,
\* windows: native graphics, any other: the stub, never a second one), and the
\* stub always returns the unsupported-platform error, acquiring no GDI
\* object, creating no file and spawning no process.
C16_BackendSelection ==
    /\ Cardinality(LinkedBackends(target_os)) = 1
    /\ target_os = "macos" => LinkedBackends(target_os) = {"macos"}
    /\ target_os = "windows" => LinkedBackends(target_os) = {"windows"}
    /\ target_os \notin {"macos", "windows"} =>
           LinkedBackends(target_os) = {"unsupported"}
    /\ "windows" \notin LinkedBackends(target_os) =>
           gdi = GdiInit /\ steps = [s \in StepNames |-> 0]
    /\ "macos" \notin LinkedBackends(target_os) =>
           NoCallBegun /\ fs = FsInit
    /\ "unsupported" \in LinkedBackends(target_os) =>
           /\ pc \in {"metrics", "done"}
           /\ pc = "done" =>
                  result = Err("Screen capture is not supported on this platform")

C16_Witness ==
    /\ target_os = "linux" /\ pc = "done"
    /\ result = Err("Screen capture is not supported on this platform")
    /\ gdi = GdiInit /\ fs = FsInit /\ NoCallBegun

ToolFailureTerminal(c) ==
    (Returned(c) /\ call[c].status \notin {-1, 0}) =>
        call[c].result = Err(StatusMessage(call[c].status))

BlitFailureTerminal ==
    /\ steps["blit"] <= 1
    /\ (pc = "done" /\ blt_result = "err") =>
           steps["blit"] = 1 /\ result = Err("BitBlt failed")

\* C17 as stated: every call of the external-tool backend spawns exactly one
\* child process, the native backend attempts the blit at most once, and the
\* first tool or blit failure is returned as the call's error.
C17_Original ==
    /\ \A c \in Calls :
           /\ Returned(c) => call[c].spawned = 1
           /\ ToolFailureTerminal(c)
    /\ BlitFailureTerminal

\* C17 as amended: a call of the external-tool backend tries to launch the
\* child process at most once and spawns at most one child: exactly one when
\* the launch succeeds, none when the clock, the temp path or the launch
\* fails; the native backend attempts the blit at most once; the first tool or
\* blit failure is returned as the call's error.
C17_NoRetry ==
    /\ \A c \in Calls :
           /\ call[c].launches <= 1 /\ call[c].spawned <= call[c].launches
           /\ call[c].status # -1 => call[c].spawned = 1
           /\ (Returned(c) /\ call[c].status = -1) =>
                  /\ call[c].spawned = 0
                  /\ call[c].result.kind = "err"
           /\ ToolFailureTerminal(c)
    /\ BlitFailureTerminal

C17_Witness ==
    \E c \in Calls :
        /\ Returned(c) /\ call[c].status = 1
        /\ call[c].launches = 1 /\ call[c].spawned = 1
        /\ call[c].result = Err(StatusMessage(1))

\* C23: the native backend releases only handles it holds: ReleaseDC, DeleteDC,
\* DeleteObject and the selection restore are performed only on a screen DC,
\* memory DC and bitmap whose acquisition (GetDC, CreateCompatibleDC,
\* CreateCompatibleBitmap, SelectObject) succeeded in this call, and BitBlt
\* and GetDIBits are attempted only on acquired handles.
C23_ReleasesOnlyHeld ==
    /\ gdi.released.screen_dc > 0 => screen_dc = "screen_dc"
    /\ gdi.released.mem_dc > 0 => mem_dc = "mem_dc"
    /\ gdi.released.bitmap > 0 => bitmap = "bitmap" /\ old_bitmap = "default"
    /\ steps["blit"] > 0 =>
           screen_dc = "screen_dc" /\ mem_dc = "mem_dc" /\ bitmap = "bitmap"
    /\ steps["extract"] > 0 => mem_dc = "mem_dc" /\ bitmap = "bitmap"

DistinctTimestamps ==
    \A c, d \in Calls :
        (c # d /\ call[c].timestamp # -1 /\ call[d].timestamp # -1) =>
            call[c].timestamp # call[d].timestamp

\* C24: when concurrent calls have pairwise distinct millisecond timestamps
\* their temp paths are pairwise distinct, no call reads or deletes a file
\* created for another call, and under every interleaving each call whose
\* tool, read and delete succeed returns exactly the bytes its own tool wrote.
C24_DistinctTimestamps ==
    DistinctTimestamps =>
        \A c \in Calls :
            /\ \A d \in Calls \ {c} :
                   call[c].path # NoPath => call[c].path # call[d].path
            /\ call[c].read = "ok" =>
                   call[c].created /\ call[c].bytes = call[c].written
            /\ call[c].remove = "ok" =>
                   call[c].created /\ ~Exists(fs, call[c].path)
            /\ (/\ Returned(c) /\ call[c].created /\ call[c].status = 0
                /\ call[c].read = "ok" /\ call[c].remove = "ok") =>
                   call[c].result = Ok(Base64Encode(call[c].written))
            /\ (call[c].created /\ call[c].read = "none"
                    /\ call[c].remove = "none") =>
                   Exists(fs, call[c].path) /\ fs[call[c].path] = call[c].written

C24_Witness ==
    \E c, d \in Calls :
        /\ c # d /\ DistinctTimestamps
        /\ call[c].timestamp # -1 /\ call[d].timestamp # -1
        /\ Returned(c) /\ Returned(d)
        /\ call[c].written = <<137, 80, 1>> /\ call[d].written = <<137, 80, 78, 2>>
        /\ call[c].result = Ok(Base64Encode(call[c].written))
        /\ call[d].result = Ok(Base64Encode(call[d].written))

\* ------------------------------------------------ claims, shortcut commands

\* C21: in every state reachable from application start through toggle_window,
\* set_shortcuts and update_shortcut calls, the ask and screen_share shortcuts
\* of the config are registered only while the main window is visible.
C21_OptionalOnlyWhileVisible ==
    ~visible =>
        /\ Parse(LoadConfig(config).ask) \notin registered
        /\ Parse(LoadConfig(config).screen_share) \notin registered

\* C22: a set_shortcuts call with a toggle, ask or screen_share text that does
\* not parse returns an error having unregistered nothing, registered nothing,
\* written no config and emitted no event, and leaves the registered set and
\* the config file as they were.
C22_ValidateFirst ==
    [][(last'.op = "set_shortcuts" /\ ~last'.valid) =>
           /\ last'.ret = "parse"
           /\ last'.unregistered = 0 /\ last'.registered = 0
           /\ ~last'.saved /\ last'.emitted = ""
           /\ registered' = registered /\ config' = config]_vars

C22_Witness ==
    /\ last = Did("set_shortcuts", "parse", FALSE, 0, 0, FALSE, "")
    /\ config.present
    /\ registered = {Parse(LoadConfig(config).toggle),
                     Parse(LoadConfig(config).ask),
                     Parse(LoadConfig(config).screen_share)}
    /\ Cardinality(registered) = 3

\* C25: a set_shortcuts or update_shortcut call that returns an error leaves
\* the set of registered shortcuts and the config file as they were before
\* the call.
C25_ErrorLeavesStateUnchanged ==
    [][(last'.op \in {"set_shortcuts", "update_shortcut"} /\ last'.ret # "ok") =>
           (registered' = registered /\ config' = config)]_vars

====
